---- MODULE Spec2Model ----
(***************************************************************************)
(* Model of optimize_cuts (src/cut_pot_stream.py): a greedy guillotine     *)
(* packer.  Parts are expanded by quantity, sorted by descending area and  *)
(* offered, board instance after board instance, to the free spaces of the *)
(* instance; a placed part splits its space into a right and a top child.  *)
(***************************************************************************)
EXTENDS Integers, Sequences, FiniteSets

\* ------------------------------------------------------------------ bounds
MaxKerf == 1        \* blade thickness 0..MaxKerf
MaxBoardQty == 2    \* Spec: quantity of a board type
MaxPartQty == 2     \* Spec: quantity of a part type
MaxBoardDim == 5    \* SpecGeom: width and height of the board
MaxPartDim == 2     \* SpecGeom: width and height of a part
MaxParts == 3       \* SpecGeom: number of parts

\* ------------------------------------------------------------- variables
VARIABLES
    boards,            \* argument: sequence of (width, height, quantity)
    parts,             \* argument: sequence of (width, height, quantity)
    blade_thickness,   \* argument
    pc,                \* position in optimize_cuts
    expanded_parts,    \* parts still to be placed, largest area first
    solution,          \* one entry per board type processed
    board_idx,         \* position of `for board in boards`
    inst_idx,          \* position of `for _ in range(board_quantity)`
    board_usage,       \* instances of the current board type
    current_board,     \* the instance being filled
    spaces,            \* free spaces of the instance being filled
    remaining_parts,   \* parts that did not fit the instance being filled
    part_idx,          \* position of `for part in expanded_parts`
    space_origin,      \* history: for each free space, the splits it descends from
    cut_origin,        \* history: for each cut of current_board, the splits its space descended from
    closed_spaces,     \* history: the free spaces each closed instance was left with
    first_unplaced     \* history: parts left unplaced by the previous call, -1 before any

vars == <<boards, parts, blade_thickness, pc, expanded_parts, solution,
          board_idx, inst_idx, board_usage, current_board, spaces,
          remaining_parts, part_idx, space_origin, cut_origin, closed_spaces,
          first_unplaced>>

\* --------------------------------------------------------------- helpers
SeqsUpTo(S, n) == UNION {[1..m -> S] : m \in 0..n}

RECURSIVE Repeat(_, _)
\* [(w, h)] * n : the empty list when n <= 0
Repeat(e, n) == IF n <= 0 THEN <<>> ELSE <<e>> \o Repeat(e, n - 1)

\* slip: the quantity is ignored, every part type is cut once
ExpandOnce(ps) == [i \in 1..Len(ps) |-> <<ps[i][1], ps[i][2]>>]

RECURSIVE Expand(_)
\* expanded_parts.extend([(part[0], part[1])] * part[2]) for each part
Expand(ps) ==
    IF ps = <<>> THEN <<>>
    ELSE Repeat(<<Head(ps)[1], Head(ps)[2]>>, Head(ps)[3]) \o Expand(Tail(ps))

Area(p) == p[1] * p[2]

RECURSIVE InsertByArea(_, _)
\* insert p behind every element whose area is >= its own (stable, descending)
InsertByArea(s, p) ==
    IF s = <<>> THEN <<p>>
    ELSE IF Area(Head(s)) >= Area(p) THEN <<Head(s)>> \o InsertByArea(Tail(s), p)
    ELSE <<p>> \o s

RECURSIVE SortByAreaDesc(_)
\* list.sort(key=area, reverse=True): stable, equal areas keep their order
SortByAreaDesc(s) ==
    IF s = <<>> THEN <<>>
    ELSE InsertByArea(SortByAreaDesc(SubSeq(s, 1, Len(s) - 1)), s[Len(s)])

WellFormed(ts) == \A i \in 1..Len(ts) : Len(ts[i]) = 3

\* slip: the blade thickness is left out of the fit test
FitsWithoutKerf(space, part_width, part_height, k) ==
    /\ part_width <= space.width
    /\ part_height <= space.height

\* the fit test of the inner loop
Fits(space, part_width, part_height, k) ==
    /\ part_width + k <= space.width
    /\ part_height + k <= space.height

RECURSIVE FindSpaceFrom(_, _, _, _, _)
FindSpaceFrom(ss, i, part_width, part_height, k) ==
    IF i > Len(ss) THEN 0
    ELSE IF Fits(ss[i], part_width, part_height, k) THEN i
    ELSE FindSpaceFrom(ss, i + 1, part_width, part_height, k)

\* `for space in spaces: if fits ... break`: index of the first fitting space, 0 if none
FindSpace(ss, part_width, part_height, k) == FindSpaceFrom(ss, 1, part_width, part_height, k)

\* slip: the cut is recorded turned by 90 degrees
NewCutRotated(space, part_width, part_height) ==
    [x |-> space.x, y |-> space.y, width |-> part_height, height |-> part_width]

NewCut(space, part_width, part_height) ==
    [x |-> space.x, y |-> space.y, width |-> part_width, height |-> part_height]

\* slip: the right child keeps the width of the space it was split from
RightChildFullWidth(space, part_width, part_height, k) ==
    [x |-> space.x + part_width + k,
     y |-> space.y,
     width |-> space.width,
     height |-> space.height]

\* slip: the right child starts at the part's edge, the blade thickness forgotten
RightChildNoKerf(space, part_width, part_height, k) ==
    [x |-> space.x + part_width,
     y |-> space.y,
     width |-> space.width - part_width,
     height |-> space.height]

RightChild(space, part_width, part_height, k) ==
    [x |-> space.x + part_width + k,
     y |-> space.y,
     width |-> space.width - part_width - k,
     height |-> space.height]

TopChild(space, part_width, part_height, k) ==
    [x |-> space.x,
     y |-> space.y + part_height + k,
     width |-> part_width,
     height |-> space.height - part_height - k]

Keep(s) == s.width > 0 /\ s.height > 0

RECURSIVE FirstEqual(_, _, _)
FirstEqual(ss, space, i) ==
    IF i > Len(ss) THEN 0
    ELSE IF ss[i] = space THEN i ELSE FirstEqual(ss, space, i + 1)

RemoveAt(s, i) ==
    IF i = 0 THEN s ELSE SubSeq(s, 1, i - 1) \o SubSeq(s, i + 1, Len(s))

\* slip: the used space is not removed
RemoveSpaceKeeps(ss, space) == ss

\* spaces.remove(space): drops the first element equal to space
RemoveSpace(ss, space) == RemoveAt(ss, FirstEqual(ss, space, 1))

FullSheet(board_width, board_height) ==
    [x |-> 0, y |-> 0, width |-> board_width, height |-> board_height]

\* ------------------------------------------------------------------ Init
InitWith(bs, ps, k) ==
    /\ boards = bs
    /\ parts = ps
    /\ blade_thickness = k
    /\ pc = "start"
    /\ expanded_parts = <<>>
    /\ solution = <<>>
    /\ board_idx = 0
    /\ inst_idx = 0
    /\ board_usage = <<>>
    /\ current_board = [width |-> 0, height |-> 0, cuts |-> <<>>]
    /\ spaces = <<>>
    /\ remaining_parts = <<>>
    /\ part_idx = 0
    /\ space_origin = <<>>
    /\ cut_origin = <<>>
    /\ closed_spaces = <<>>
    /\ first_unplaced = -1

\* inputs that are not lists of triples
InitMalformed ==
    \E bs \in {<<>>, <<<<1, 1, 1>>>>, <<<<1, 1>>>>},
       ps \in {<<>>, <<<<1, 1, 1>>>>, <<<<1, 1, 1, 1>>>>} :
        /\ ~(WellFormed(bs) /\ WellFormed(ps))
        /\ InitWith(bs, ps, 0)

\* Spec: up to two board types and two part types of small sizes, in quantity
SmallDims == {1, 2}
BoardTuples == {<<w, h, q>> : w \in SmallDims, h \in SmallDims, q \in 0..MaxBoardQty}
PartTuples == {<<w, h, q>> : w \in SmallDims, h \in SmallDims, q \in 0..MaxPartQty}

Init ==
    \/ \E bs \in SeqsUpTo(BoardTuples, 2), ps \in SeqsUpTo(PartTuples, 2),
          k \in 0..MaxKerf :
           InitWith(bs, ps, k)
    \/ InitMalformed

\* SpecGeom: one board of the larger sizes, up to MaxParts single parts
GeomBoardDims == (MaxBoardDim - 2)..MaxBoardDim
GeomBoards == {<<<<w, h, 1>>>> : w \in GeomBoardDims, h \in GeomBoardDims}
GeomPartTuples == {<<w, h, 1>> : w \in 1..MaxPartDim, h \in 1..MaxPartDim}

InitGeom ==
    \/ \E bs \in GeomBoards, ps \in SeqsUpTo(GeomPartTuples, MaxParts),
          k \in 0..MaxKerf :
           InitWith(bs, ps, k)
    \/ InitMalformed

\* SpecUnchecked: values the caller may pass: zero sizes, negative quantities, negative kerf
UncheckedTuples == {<<w, h, q>> : w \in 0..2, h \in 0..2, q \in -1..1}

InitUnchecked ==
    \/ \E bs \in SeqsUpTo(UncheckedTuples, 1), ps \in SeqsUpTo(UncheckedTuples, 1),
          k \in -1..1 :
           InitWith(bs, ps, k)
    \/ InitMalformed

\* SpecMono: three board types, three single parts, kerf 0
MonoBoardTuples == {<<w, h, q>> : w \in 1..2, h \in 2..3, q \in 0..1}
MonoPartTuples == {<<w, h, 1>> : w \in SmallDims, h \in SmallDims}

InitMono ==
    \/ \E bs \in [1..3 -> MonoBoardTuples], ps \in [1..3 -> MonoPartTuples] :
           InitWith(bs, ps, 0)
    \/ InitMalformed

\* --------------------------------------------------------------- actions
loopVars == <<board_idx, inst_idx, board_usage, current_board, spaces,
              remaining_parts, part_idx, space_origin, cut_origin, closed_spaces,
              first_unplaced>>

\* lines 66-69: a board or part that is not a triple raises ValueError
Reject ==
    /\ pc = "start"
    /\ ~(WellFormed(boards) /\ WellFormed(parts))
    /\ pc' = "error"
    /\ UNCHANGED <<boards, parts, blade_thickness, expanded_parts, solution>>
    /\ UNCHANGED loopVars

\* lines 71-80: expand, sort, solution = []
Prepare ==
    /\ pc = "start"
    /\ WellFormed(boards) /\ WellFormed(parts)
    /\ expanded_parts' = SortByAreaDesc(Expand(parts))
    /\ solution' = <<>>
    /\ board_idx' = 1
    /\ pc' = "board"
    /\ UNCHANGED <<boards, parts, blade_thickness, inst_idx, board_usage,
                   current_board, spaces, remaining_parts, part_idx,
                   space_origin, cut_origin, closed_spaces, first_unplaced>>

\* lines 83-85: next board type
NextBoard ==
    /\ pc = "board"
    /\ board_idx <= Len(boards)
    /\ board_usage' = <<>>
    /\ inst_idx' = 0
    /\ pc' = "instance"
    /\ UNCHANGED <<boards, parts, blade_thickness, expanded_parts, solution,
                   board_idx, current_board, spaces, remaining_parts, part_idx,
                   space_origin, cut_origin, closed_spaces, first_unplaced>>

\* line 142: the board loop is over
Return ==
    /\ pc = "board"
    /\ board_idx > Len(boards)
    /\ pc' = "done"
    /\ UNCHANGED <<boards, parts, blade_thickness, expanded_parts, solution>>
    /\ UNCHANGED loopVars

\* lines 87-91: open an instance of the current board type
OpenInstance ==
    /\ pc = "instance"
    /\ inst_idx < boards[board_idx][3]
    /\ current_board' = [width |-> boards[board_idx][1],
                         height |-> boards[board_idx][2],
                         cuts |-> <<>>]
    /\ spaces' = <<FullSheet(boards[board_idx][1], boards[board_idx][2])>>
    /\ space_origin' = <<{}>>
    /\ cut_origin' = <<>>
    /\ remaining_parts' = <<>>
    /\ part_idx' = 1
    /\ pc' = "part"
    /\ UNCHANGED <<boards, parts, blade_thickness, expanded_parts, solution,
                   board_idx, inst_idx, board_usage, closed_spaces, first_unplaced>>

\* line 87: range(board_quantity) is exhausted
QuantityExhausted ==
    /\ pc = "instance"
    /\ inst_idx >= boards[board_idx][3]
    /\ pc' = "endboard"
    /\ UNCHANGED <<boards, parts, blade_thickness, expanded_parts, solution>>
    /\ UNCHANGED loopVars

\* lines 94-128: the part fits a space: cut it there and split the space
PlacePart ==
    /\ pc = "part"
    /\ part_idx <= Len(expanded_parts)
    /\ LET part_width == expanded_parts[part_idx][1]
           part_height == expanded_parts[part_idx][2]
           i == FindSpace(spaces, part_width, part_height, blade_thickness)
       IN /\ i # 0
          /\ LET space == spaces[i]
                 n == Len(current_board.cuts) + 1
                 right == RightChild(space, part_width, part_height, blade_thickness)
                 top == TopChild(space, part_width, part_height, blade_thickness)
                 new_spaces == (IF Keep(right) THEN <<right>> ELSE <<>>)
                               \o (IF Keep(top) THEN <<top>> ELSE <<>>)
                 origin == IF i \in DOMAIN space_origin THEN space_origin[i] ELSE {}
                 new_origin == (IF Keep(right) THEN <<origin \cup {<<n, "right">>}>> ELSE <<>>)
                               \o (IF Keep(top) THEN <<origin \cup {<<n, "top">>}>> ELSE <<>>)
             IN /\ current_board' =
                       [current_board EXCEPT
                           !.cuts = Append(@, NewCut(space, part_width, part_height))]
                /\ spaces' = RemoveSpace(spaces, space) \o new_spaces
                /\ space_origin' =
                       RemoveAt(space_origin, FirstEqual(spaces, space, 1)) \o new_origin
                /\ cut_origin' = Append(cut_origin, origin)
    /\ part_idx' = part_idx + 1
    /\ UNCHANGED <<boards, parts, blade_thickness, pc, expanded_parts, solution,
                   board_idx, inst_idx, board_usage, remaining_parts, closed_spaces,
                   first_unplaced>>

\* lines 94-100, 130-131: no space fits: the part stays for the next instance
SkipPart ==
    /\ pc = "part"
    /\ part_idx <= Len(expanded_parts)
    /\ FindSpace(spaces, expanded_parts[part_idx][1], expanded_parts[part_idx][2],
                 blade_thickness) = 0
    /\ remaining_parts' = Append(remaining_parts, expanded_parts[part_idx])
    /\ part_idx' = part_idx + 1
    /\ UNCHANGED <<boards, parts, blade_thickness, pc, expanded_parts, solution,
                   board_idx, inst_idx, board_usage, current_board, spaces,
                   space_origin, cut_origin, closed_spaces, first_unplaced>>

\* slip: the instance loop is left after the first instance
LeavesAlways(remaining) == TRUE

\* `if not remaining_parts: break`
LeavesInstanceLoop(remaining) == remaining = <<>>

\* `expanded_parts = remaining_parts`
CarriedOver(remaining) == remaining

\* lines 133-138: every part was offered to the instance
CloseInstance ==
    /\ pc = "part"
    /\ part_idx > Len(expanded_parts)
    /\ board_usage' = Append(board_usage, current_board)
    /\ closed_spaces' = Append(closed_spaces, spaces)
    /\ expanded_parts' = CarriedOver(remaining_parts)
    /\ inst_idx' = inst_idx + 1
    /\ pc' = IF LeavesInstanceLoop(remaining_parts) THEN "endboard" ELSE "instance"
    /\ UNCHANGED <<boards, parts, blade_thickness, solution, board_idx,
                   current_board, spaces, remaining_parts, part_idx,
                   space_origin, cut_origin, first_unplaced>>

\* line 140
EndBoard ==
    /\ pc = "endboard"
    /\ solution' = Append(solution,
                          [board |-> <<boards[board_idx][1], boards[board_idx][2]>>,
                           details |-> board_usage])
    /\ board_idx' = board_idx + 1
    /\ pc' = "board"
    /\ UNCHANGED <<boards, parts, blade_thickness, expanded_parts, inst_idx,
                   board_usage, current_board, spaces, remaining_parts, part_idx,
                   space_origin, cut_origin, closed_spaces, first_unplaced>>

Next ==
    \/ Reject
    \/ Prepare
    \/ NextBoard
    \/ Return
    \/ OpenInstance
    \/ QuantityExhausted
    \/ PlacePart
    \/ SkipPart
    \/ CloseInstance
    \/ EndBoard

\* lines 194-220: the board quantities are edited and Optimize is pressed again;
\* here one board type's quantity is raised by one
CallAgain ==
    /\ pc = "done"
    /\ first_unplaced = -1
    /\ \E i \in 1..Len(boards) :
          boards' = [boards EXCEPT ![i] = <<@[1], @[2], @[3] + 1>>]
    /\ first_unplaced' = Len(expanded_parts)
    /\ pc' = "start"
    /\ UNCHANGED <<parts, blade_thickness, expanded_parts, solution, board_idx,
                   inst_idx, board_usage, current_board, spaces, remaining_parts,
                   part_idx, space_origin, cut_origin>>
    /\ closed_spaces' = <<>>

NextMono == Next \/ CallAgain

Spec == Init /\ [][Next]_vars
SpecGeom == InitGeom /\ [][Next]_vars
SpecUnchecked == InitUnchecked /\ [][Next]_vars
SpecMono == InitMono /\ [][NextMono]_vars

\* ---------------------------------------------------------------- views
RECURSIVE Flatten(_)
\* the board instances of the solution, in the order they were opened
Flatten(sol) == IF sol = <<>> THEN <<>> ELSE Head(sol).details \o Flatten(Tail(sol))

\* instances already appended to board_usage, oldest first
ClosedInstances ==
    Flatten(solution) \o (IF pc \in {"instance", "part", "endboard"} THEN board_usage ELSE <<>>)

\* every instance opened so far
Instances == ClosedInstances \o (IF pc = "part" THEN <<current_board>> ELSE <<>>)

AllCuts == UNION {{<<i, j>> : j \in 1..Len(Instances[i].cuts)} : i \in 1..Len(Instances)}

ValidValues ==
    /\ \A i \in 1..Len(boards) : boards[i][1] > 0 /\ boards[i][2] > 0 /\ boards[i][3] >= 0
    /\ \A i \in 1..Len(parts) : parts[i][1] > 0 /\ parts[i][2] > 0 /\ parts[i][3] >= 0
    /\ blade_thickness >= 0

ValidInput == WellFormed(boards) /\ WellFormed(parts) /\ ValidValues

Disjoint(a, b) ==
    \/ a.x + a.width <= b.x
    \/ b.x + b.width <= a.x
    \/ a.y + a.height <= b.y
    \/ b.y + b.height <= a.y

\* the part the inner loop is about to offer to the spaces
Offering == pc = "part" /\ part_idx <= Len(expanded_parts)

\* ---------------------------------------------------------------- claims

\* C1: during packing and in the returned layout, two distinct parts cut from the
\* same board instance have interior-disjoint rectangles.
NoOverlap ==
    ValidInput =>
        \A i \in 1..Len(Instances) :
            \A a \in 1..Len(Instances[i].cuts), b \in 1..Len(Instances[i].cuts) :
                a < b => Disjoint(Instances[i].cuts[a], Instances[i].cuts[b])

\* three parts share the returned board, one of them beside and one above another
NoOverlapWitness ==
    /\ pc = "done"
    /\ ValidInput
    /\ \E i \in 1..Len(Instances) :
          /\ Len(Instances[i].cuts) >= 3
          /\ \E a \in 1..Len(Instances[i].cuts) : Instances[i].cuts[a].x > 0
          /\ \E a \in 1..Len(Instances[i].cuts) : Instances[i].cuts[a].y > 0

\* C2: every placed part lies inside the board instance it is cut from.
Containment ==
    ValidInput =>
        \A i \in 1..Len(Instances) :
            \A a \in 1..Len(Instances[i].cuts) :
                LET c == Instances[i].cuts[a]
                IN /\ 0 <= c.x
                   /\ 0 <= c.y
                   /\ c.x + c.width <= Instances[i].width
                   /\ c.y + c.height <= Instances[i].height

\* one part ends flush with the right edge of its board, one with the top edge
ContainmentWitness ==
    /\ ValidInput
    /\ \E i \in 1..Len(Instances) :
          /\ \E a \in 1..Len(Instances[i].cuts) :
                /\ Instances[i].cuts[a].x > 0
                /\ Instances[i].cuts[a].x + Instances[i].cuts[a].width = Instances[i].width
          /\ \E a \in 1..Len(Instances[i].cuts) :
                /\ Instances[i].cuts[a].y > 0
                /\ Instances[i].cuts[a].y + Instances[i].cuts[a].height = Instances[i].height

\* C3: when packing ends, for every dimension the parts placed plus the parts left
\* unplaced are exactly the demanded quantity.
DimsOf(ts) == {<<ts[i][1], ts[i][2]>> : i \in 1..Len(ts)}

RECURSIVE Demand(_, _)
Demand(ps, d) ==
    IF ps = <<>> THEN 0
    ELSE (IF <<Head(ps)[1], Head(ps)[2]>> = d THEN Head(ps)[3] ELSE 0) + Demand(Tail(ps), d)

PlacedCount(d) ==
    Cardinality({c \in AllCuts :
        <<Instances[c[1]].cuts[c[2]].width, Instances[c[1]].cuts[c[2]].height>> = d})

UnplacedCount(d) == Cardinality({i \in 1..Len(expanded_parts) : expanded_parts[i] = d})

Conservation ==
    (pc = "done" /\ ValidInput) =>
        /\ \A d \in DimsOf(parts) : PlacedCount(d) + UnplacedCount(d) = Demand(parts, d)
        /\ \A c \in AllCuts :
              <<Instances[c[1]].cuts[c[2]].width, Instances[c[1]].cuts[c[2]].height>>
                  \in DimsOf(parts)
        /\ \A i \in 1..Len(expanded_parts) : expanded_parts[i] \in DimsOf(parts)

\* a run over two instances that placed parts on both and left one unplaced
ConservationWitness ==
    /\ pc = "done"
    /\ ValidInput
    /\ Len(Instances) >= 2
    /\ Instances[1].cuts # <<>>
    /\ Instances[2].cuts # <<>>
    /\ expanded_parts # <<>>
    /\ \E d \in DimsOf(parts) : PlacedCount(d) > 0 /\ UnplacedCount(d) > 0

\* C4: sizes <= 0, negative quantities and a negative kerf are refused: the call
\* raises before any board instance is opened.
InvalidInputRefused ==
    (WellFormed(boards) /\ WellFormed(parts) /\ ~ValidValues) =>
        /\ pc \in {"start", "error"}
        /\ Instances = <<>>

\* C5: raising one board type's quantity never leaves more parts unplaced.
Monotonicity ==
    (pc = "done" /\ first_unplaced >= 0) => Len(expanded_parts) <= first_unplaced

\* C6: a part cut from a space that descends from the right child of an earlier
\* part's split lies at least a kerf to its right; from the top child, a kerf above.
KerfSeparation ==
    ValidInput =>
        \A q \in 1..Len(cut_origin) :
            \A o \in cut_origin[q] :
                LET P == current_board.cuts[o[1]]
                    Q == current_board.cuts[q]
                IN /\ o[2] = "right" => Q.x >= P.x + P.width + blade_thickness
                   /\ o[2] = "top" => Q.y >= P.y + P.height + blade_thickness

\* with a kerf, one part sits in the right child of another and one in a top child
KerfSeparationWitness ==
    /\ ValidInput
    /\ blade_thickness > 0
    /\ Len(cut_origin) = Len(current_board.cuts)
    /\ \E q \in 1..Len(cut_origin) : \E o \in cut_origin[q] : o[2] = "right"
    /\ \E q \in 1..Len(cut_origin) : \E o \in cut_origin[q] : o[2] = "top"

\* C7: the returned layout holds no board instance without a placed part.
NoEmptyInstanceReturned ==
    (pc = "done" /\ ValidInput) =>
        \A i \in 1..Len(Instances) : Instances[i].cuts # <<>>

\* C8 as stated: a part that fits a space only when turned by 90 degrees is cut
\* turned instead of being left for the next instance.
FitsSomeSpace(w, h) ==
    \E i \in 1..Len(spaces) :
        w + blade_thickness <= spaces[i].width /\ h + blade_thickness <= spaces[i].height

FullSheetPartPlaced ==
    (/\ pc = "part"
     /\ ValidInput
     /\ part_idx >= 2
     /\ expanded_parts[1] = <<current_board.width, current_board.height>>)
    => /\ current_board.cuts # <<>>
       /\ current_board.cuts[1] = [x |-> 0, y |-> 0,
                                   width |-> current_board.width,
                                   height |-> current_board.height]

\* C9 as amended: the part goes to the first space, in insertion order, that is at
\* least a kerf wider and a kerf higher than the part, at that space's corner; a
\* part as large as the fresh board is cut from it exactly when the kerf is 0.
KerfFit(i, part) ==
    /\ part[1] + blade_thickness <= spaces[i].width
    /\ part[2] + blade_thickness <= spaces[i].height

FirstFitWithKerf ==
    [][(Offering /\ ValidInput) =>
        LET part == expanded_parts[part_idx]
            fitting == {i \in 1..Len(spaces) : KerfFit(i, part)}
        IN /\ fitting = {} =>
                 /\ current_board'.cuts = current_board.cuts
                 /\ remaining_parts' = Append(remaining_parts, part)
           /\ fitting # {} =>
                 LET i == CHOOSE m \in fitting : \A n \in fitting : m <= n
                 IN /\ current_board'.cuts =
                          Append(current_board.cuts,
                                 [x |-> spaces[i].x, y |-> spaces[i].y,
                                  width |-> part[1], height |-> part[2]])
                    /\ remaining_parts' = remaining_parts
           /\ (/\ part_idx = 1
               /\ part = <<current_board.width, current_board.height>>)
              => (current_board'.cuts # <<>> <=> blade_thickness = 0)]_vars

\* with a kerf, the part as large as the fresh board was left over
FirstFitWithKerfWitness ==
    /\ pc = "part"
    /\ ValidInput
    /\ blade_thickness > 0
    /\ part_idx >= 2
    /\ expanded_parts[1] = <<current_board.width, current_board.height>>
    /\ current_board.cuts = <<>>
    /\ remaining_parts # <<>>

\* C10: a part cut from an instance fitted no space left on any instance opened
\* before it; a part is left unplaced only after every board type's quantity was
\* opened and no space of any instance fitted it.
FitsNoSpaceOf(ss, w, h) ==
    \A s \in 1..Len(ss) :
        ~(w + blade_thickness <= ss[s].width /\ h + blade_thickness <= ss[s].height)

FirstFitAcrossInstances ==
    ValidInput =>
        /\ Len(closed_spaces) = Len(ClosedInstances)
        /\ \A j \in 1..Len(Instances) : \A i \in 1..Len(closed_spaces) :
              i < j =>
                  \A c \in 1..Len(Instances[j].cuts) :
                      FitsNoSpaceOf(closed_spaces[i], Instances[j].cuts[c].width,
                                    Instances[j].cuts[c].height)
        /\ (pc = "done" /\ expanded_parts # <<>>) =>
              /\ \A t \in 1..Len(boards) : Len(solution[t].details) = boards[t][3]
              /\ \A p \in 1..Len(expanded_parts) : \A i \in 1..Len(closed_spaces) :
                    FitsNoSpaceOf(closed_spaces[i], expanded_parts[p][1],
                                  expanded_parts[p][2])

\* a part went to the second board type after an instance of the first was left
\* with free space, and another part stayed unplaced
FirstFitAcrossInstancesWitness ==
    /\ pc = "done"
    /\ ValidInput
    /\ Len(solution) = 2
    /\ solution[1].details # <<>>
    /\ solution[2].details # <<>>
    /\ solution[2].details[1].cuts # <<>>
    /\ closed_spaces[1] # <<>>
    /\ expanded_parts # <<>>

====
